---- MODULE Spec2Model ----
(***************************************************************************)
(* A model of the arbitrary-arity tree of src/src/lib.rs: a SlotMap of     *)
(* InnerNode records plus an optional root key, and the public operations  *)
(* insert_root, insert, reorder_children, remove, rebase, clear, get,      *)
(* contains and get_relationship.                                          *)
(***************************************************************************)
EXTENDS Integers, Sequences, FiniteSets, TLC

\* Bounds of the model.
MaxInserts == 4   \* keys handed out by the slot map over a whole run
MaxEdits == 1     \* calls of remove, rebase, reorder_children and clear
                  \* that change the tree, over a whole run

\* Option<K>::None, and K::default() (the null key, which no map contains).
None == <<0, 0>>
NullKey == <<0, 1>>

VARIABLES
    root_key,       \* Tree::root_key
    inner_nodes,    \* Tree::inner_nodes, the slot map
    op,             \* the last public call: its name, arguments and outcome
    issued,         \* history: every key insert_root / insert has returned
    dead,           \* history: every key whose node has been destroyed
    edits,          \* history: the calls so far that MaxEdits counts
    prev,           \* history: the tree as it was before the last call
    builders,       \* the TreeBuilder values of the builder calls
    declared        \* the tree description given to make_tree_and_key_map,
                    \* its key map and the description read back

vars == <<root_key, inner_nodes, op, issued, dead, edits, prev, builders,
          declared>>

-----------------------------------------------------------------------------
(* IndexSet<K>: an insertion-ordered set, kept as a duplicate-free sequence *)

Range(s) == {s[i] : i \in 1..Len(s)}

ix_contains(s, k) == k \in Range(s)

\* Mutant of ix_insert: the new key is put first.
ix_insert_first(s, k) == IF ix_contains(s, k) THEN s ELSE <<k>> \o s

\* IndexSet::insert: appends unless already present.
ix_insert(s, k) == IF ix_contains(s, k) THEN s ELSE Append(s, k)

\* Mutant of ix_shift_remove: IndexSet::swap_remove, which moves the last
\* element into the place of the removed one.
ix_swap_remove(s, k) ==
    IF ~ix_contains(s, k) THEN s
    ELSE LET i == CHOOSE j \in 1..Len(s) : s[j] = k
             last == s[Len(s)]
         IN [j \in 1..(Len(s) - 1) |-> IF j = i THEN last ELSE s[j]]

\* IndexSet::shift_remove: removes k, the rest keep their order.
ix_shift_remove(s, k) == SelectSeq(s, LAMBDA x : x # k)

\* IndexSet::difference: the elements of a not in b, in a's order.
ix_difference(a, b) == SelectSeq(a, LAMBDA x : ~ix_contains(b, x))

-----------------------------------------------------------------------------
(* SlotMap<K, InnerNode>: slots with a version each, a free list, and the  *)
(* occupied slots' contents keyed by <<index, version>>.  An occupied slot *)
(* has an odd version, a vacant one an even version.                       *)

EmptySlotMap == [versions |-> <<>>, free |-> <<>>, map |-> <<>>]

sm_contains_key(sm, k) == k \in DOMAIN sm.map

sm_get(sm, k) == sm.map[k]

sm_len(sm) == Cardinality(DOMAIN sm.map)

sm_keys(sm) == DOMAIN sm.map

\* The key the next insert returns: the head of the free list with its
\* version made odd, or a new slot with version 1.
sm_next_key(sm) ==
    IF sm.free # <<>>
    THEN LET idx == Head(sm.free)
             v == sm.versions[idx]
         IN <<idx, IF v % 2 = 0 THEN v + 1 ELSE v>>
    ELSE <<Len(sm.versions) + 1, 1>>

sm_insert(sm, node) ==
    LET k == sm_next_key(sm)
    IN [versions |-> IF sm.free # <<>>
                     THEN [sm.versions EXCEPT ![k[1]] = k[2]]
                     ELSE Append(sm.versions, 1),
        free |-> IF sm.free # <<>> THEN Tail(sm.free) ELSE <<>>,
        map |-> [x \in DOMAIN sm.map \cup {k} |->
                    IF x = k THEN node ELSE sm.map[x]]]

\* SlotMap::remove of a contained key: the slot's version is bumped and the
\* slot is pushed on the free list.
sm_remove(sm, k) ==
    [versions |-> [sm.versions EXCEPT ![k[1]] = @ + 1],
     free |-> <<k[1]>> \o sm.free,
     map |-> [x \in DOMAIN sm.map \ {k} |-> sm.map[x]]]

\* SlotMap::get_mut followed by a write to the node.
sm_set(sm, k, node) == [sm EXCEPT !.map = [@ EXCEPT ![k] = node]]

\* SlotMap::clear drains the map: every occupied slot is removed, by
\* increasing index.
RECURSIVE sm_drain(_, _)
sm_drain(sm, idx) ==
    IF idx > Len(sm.versions) THEN sm
    ELSE LET k == <<idx, sm.versions[idx]>>
         IN sm_drain(IF sm_contains_key(sm, k) THEN sm_remove(sm, k) ELSE sm,
                     idx + 1)

sm_clear(sm) == sm_drain(sm, 1)

-----------------------------------------------------------------------------
(* Outcomes of a call: the value returned, or a panic.                     *)

RUnit == [kind |-> "unit", val |-> 0]
RNone == [kind |-> "none", val |-> 0]
RKey(k) == [kind |-> "key", val |-> k]
RValue(v) == [kind |-> "value", val |-> v]
RBool(b) == [kind |-> "bool", val |-> b]
RRel(r) == [kind |-> "rel", val |-> r]
RPanic == [kind |-> "panic", val |-> 0]

\* A call's effect: the tree it leaves and what it returns.
Ret(t, r) == [tree |-> t, ret |-> r]

\* Relationship<K>
Same == [kind |-> "Same", ancestor_key |-> None, descendent_key |-> None,
         common_ancestor_key |-> None]
Ancestral(a, d) == [kind |-> "Ancestral", ancestor_key |-> a,
                    descendent_key |-> d, common_ancestor_key |-> None]
Siblings(c) == [kind |-> "Siblings", ancestor_key |-> None,
                descendent_key |-> None, common_ancestor_key |-> c]
\* The unreachable!() of the second walk of get_relationship.
RelUnreachable == [kind |-> "Unreachable", ancestor_key |-> None,
                   descendent_key |-> None, common_ancestor_key |-> None]

InnerNode(parent_key, child_keys, value, depth) ==
    [parent_key |-> parent_key, child_keys |-> child_keys,
     value |-> value, depth |-> depth]

-----------------------------------------------------------------------------
(* Tree<K, V>.  A tree t is [root_key, inner_nodes].                       *)

contains(t, key) == sm_contains_key(t.inner_nodes, key)

is_empty(t) == sm_len(t.inner_nodes) = 0

len(t) == sm_len(t.inner_nodes)

get(t, key) ==
    IF sm_contains_key(t.inner_nodes, key) THEN RKey(key) ELSE RNone

\* Mutant of clear: the root key is reset and the nodes are kept.
clear_keeps_nodes(t) == [root_key |-> None, inner_nodes |-> t.inner_nodes]

clear(t) == [root_key |-> None, inner_nodes |-> sm_clear(t.inner_nodes)]

\* Mutant of insert_root_with_capacity: the tree is not cleared first.
insert_root_with_capacity_no_clear(t, value) ==
    Ret([root_key |-> sm_next_key(t.inner_nodes),
         inner_nodes |-> sm_insert(t.inner_nodes,
                                   InnerNode(None, <<>>, value, 0))],
        RKey(sm_next_key(t.inner_nodes)))

insert_root_with_capacity(t, value) ==
    LET t1 == IF t.root_key # None THEN clear(t) ELSE t
        new_key == sm_next_key(t1.inner_nodes)
    IN Ret([root_key |-> new_key,
            inner_nodes |-> sm_insert(t1.inner_nodes,
                                      InnerNode(None, <<>>, value, 0))],
           RKey(new_key))

\* Mutant of insert_with_capacity: the new key is not added to the
\* parent's child_keys.
insert_with_capacity_unlisted(t, value, parent_key) ==
    IF ~sm_contains_key(t.inner_nodes, parent_key) THEN Ret(t, RNone)
    ELSE Ret([t EXCEPT !.inner_nodes =
                 sm_insert(@, InnerNode(parent_key, <<>>, value,
                                        sm_get(@, parent_key).depth + 1))],
             RKey(sm_next_key(t.inner_nodes)))

\* Mutant of insert_with_capacity: the new node gets its parent's depth.
insert_with_capacity_same_depth(t, value, parent_key) ==
    IF ~sm_contains_key(t.inner_nodes, parent_key) THEN Ret(t, RNone)
    ELSE LET key == sm_next_key(t.inner_nodes)
             sm1 == sm_insert(t.inner_nodes,
                              InnerNode(parent_key, <<>>, value,
                                        sm_get(t.inner_nodes, parent_key).depth))
         IN Ret([t EXCEPT !.inner_nodes =
                    sm_set(sm1, parent_key,
                           [sm_get(sm1, parent_key) EXCEPT
                               !.child_keys = ix_insert(@, key)])],
                RKey(key))

insert_with_capacity(t, value, parent_key) ==
    IF ~sm_contains_key(t.inner_nodes, parent_key) THEN Ret(t, RNone)
    ELSE LET parent_depth == sm_get(t.inner_nodes, parent_key).depth
             key == sm_next_key(t.inner_nodes)
             sm1 == sm_insert(t.inner_nodes,
                              InnerNode(parent_key, <<>>, value, parent_depth + 1))
             parent == sm_get(sm1, parent_key)
             sm2 == sm_set(sm1, parent_key,
                           [parent EXCEPT !.child_keys = ix_insert(@, key)])
         IN Ret([t EXCEPT !.inner_nodes = sm2], RKey(key))

\* Mutant of remove_visit: the children of a popped node are pushed, and
\* the last of them is pushed once more.
RECURSIVE remove_visit_pushes_twice(_, _)
remove_visit_pushes_twice(sm, to_visit_keys) ==
    IF to_visit_keys = <<>> THEN [sm |-> sm, ok |-> TRUE, visited |-> <<>>]
    ELSE LET to_visit_key == to_visit_keys[Len(to_visit_keys)]
             rest == SubSeq(to_visit_keys, 1, Len(to_visit_keys) - 1)
         IN IF ~sm_contains_key(sm, to_visit_key)
            THEN [sm |-> sm, ok |-> FALSE, visited |-> <<to_visit_key>>]
            ELSE LET child_keys == sm_get(sm, to_visit_key).child_keys
                     again == IF child_keys = <<>> THEN <<>>
                              ELSE <<child_keys[Len(child_keys)]>>
                 IN [remove_visit_pushes_twice(sm_remove(sm, to_visit_key),
                                               rest \o child_keys \o again)
                        EXCEPT !.visited = <<to_visit_key>> \o @]

\* The work-stack loops of remove_non_root and reorder_children: pop a key,
\* remove its node (unwrap), push the node's children.  ok is FALSE when
\* the unwrap fails; visited lists the popped keys in the order of the pops.
RECURSIVE remove_visit(_, _)
remove_visit(sm, to_visit_keys) ==
    IF to_visit_keys = <<>> THEN [sm |-> sm, ok |-> TRUE, visited |-> <<>>]
    ELSE LET to_visit_key == to_visit_keys[Len(to_visit_keys)]
             rest == SubSeq(to_visit_keys, 1, Len(to_visit_keys) - 1)
         IN IF ~sm_contains_key(sm, to_visit_key)
            THEN [sm |-> sm, ok |-> FALSE, visited |-> <<to_visit_key>>]
            ELSE [remove_visit(sm_remove(sm, to_visit_key),
                               rest \o sm_get(sm, to_visit_key).child_keys)
                     EXCEPT !.visited = <<to_visit_key>> \o @]

\* Mutant of reorder_children: the omitted children are dropped from
\* child_keys and their nodes are left in the map.
reorder_children_keeps_omitted(t, key, reordered_keys) ==
    IF ~sm_contains_key(t.inner_nodes, key) THEN Ret(t, RBool(FALSE))
    ELSE IF ix_difference(reordered_keys, sm_get(t.inner_nodes, key).child_keys) # <<>>
    THEN Ret(t, RBool(FALSE))
    ELSE Ret([t EXCEPT !.inner_nodes =
                 sm_set(@, key, [sm_get(@, key) EXCEPT
                                    !.child_keys = reordered_keys])],
             RBool(TRUE))

\* Mutant of reorder_children: the omitted children are removed and the
\* remaining ones stay in their old order.
reorder_children_keeps_order(t, key, reordered_keys) ==
    IF ~sm_contains_key(t.inner_nodes, key) THEN Ret(t, RBool(FALSE))
    ELSE LET child_keys == sm_get(t.inner_nodes, key).child_keys
         IN IF ix_difference(reordered_keys, child_keys) # <<>>
            THEN Ret(t, RBool(FALSE))
            ELSE LET v == remove_visit(t.inner_nodes,
                                       ix_difference(child_keys, reordered_keys))
                 IN Ret([t EXCEPT !.inner_nodes =
                            sm_set(v.sm, key,
                                   [sm_get(v.sm, key) EXCEPT
                                       !.child_keys =
                                           SelectSeq(child_keys,
                                               LAMBDA c : ix_contains(reordered_keys, c))])],
                        RBool(TRUE))

\* Mutant of reorder_children: the returned keys are not compared with the
\* current children.
reorder_children_unchecked(t, key, reordered_keys) ==
    IF ~sm_contains_key(t.inner_nodes, key) THEN Ret(t, RBool(FALSE))
    ELSE LET child_keys == sm_get(t.inner_nodes, key).child_keys
             v == remove_visit(t.inner_nodes,
                               ix_difference(child_keys, reordered_keys))
         IN Ret([t EXCEPT !.inner_nodes =
                    sm_set(v.sm, key,
                           [sm_get(v.sm, key) EXCEPT
                               !.child_keys = reordered_keys])],
                RBool(TRUE))

\* Mutant of reorder_children: an order equal to the present one is
\* refused.
reorder_children_refuses_same(t, key, reordered_keys) ==
    IF ~sm_contains_key(t.inner_nodes, key) THEN Ret(t, RBool(FALSE))
    ELSE LET child_keys == sm_get(t.inner_nodes, key).child_keys
             difference == ix_difference(reordered_keys, child_keys)
         IN IF difference # <<>> \/ reordered_keys = child_keys
            THEN Ret(t, RBool(FALSE))
            ELSE LET keys_to_remove == ix_difference(child_keys, reordered_keys)
                     v == remove_visit(t.inner_nodes, keys_to_remove)
                 IN IF ~v.ok THEN Ret([t EXCEPT !.inner_nodes = v.sm], RPanic)
                    ELSE Ret([t EXCEPT !.inner_nodes =
                                 sm_set(v.sm, key,
                                        [sm_get(v.sm, key) EXCEPT
                                            !.child_keys = reordered_keys])],
                             RBool(TRUE))

reorder_children(t, key, reordered_keys) ==
    IF ~sm_contains_key(t.inner_nodes, key) THEN Ret(t, RBool(FALSE))
    ELSE LET child_keys == sm_get(t.inner_nodes, key).child_keys
             difference == ix_difference(reordered_keys, child_keys)
         IN IF difference # <<>> THEN Ret(t, RBool(FALSE))
            ELSE LET keys_to_remove == ix_difference(child_keys, reordered_keys)
                     v == remove_visit(t.inner_nodes, keys_to_remove)
                 IN IF ~v.ok THEN Ret([t EXCEPT !.inner_nodes = v.sm], RPanic)
                    ELSE Ret([t EXCEPT !.inner_nodes =
                                 sm_set(v.sm, key,
                                        [sm_get(v.sm, key) EXCEPT
                                            !.child_keys = reordered_keys])],
                             RBool(TRUE))

\* Mutant of remove_root: the root's node is removed and the tree is not
\* cleared.
remove_root_no_clear(t, key) ==
    IF ~sm_contains_key(t.inner_nodes, key) THEN Ret(t, RPanic)
    ELSE Ret([t EXCEPT !.inner_nodes = sm_remove(@, key)],
             RValue(sm_get(t.inner_nodes, key).value))

\* Mutant of remove_root: the root's node is removed and root_key reset,
\* the other nodes are left in the map.
remove_root_orphans_children(t, key) ==
    IF ~sm_contains_key(t.inner_nodes, key) THEN Ret(t, RPanic)
    ELSE Ret([root_key |-> None, inner_nodes |-> sm_remove(t.inner_nodes, key)],
             RValue(sm_get(t.inner_nodes, key).value))

remove_root(t, key) ==
    IF ~sm_contains_key(t.inner_nodes, key) THEN Ret(t, RPanic)
    ELSE Ret(clear([t EXCEPT !.inner_nodes = sm_remove(@, key)]),
             RValue(sm_get(t.inner_nodes, key).value))

\* Mutant of remove_non_root: the node is removed and detached, its
\* descendants are left in the map.
remove_non_root_no_cascade(t, key) ==
    IF ~sm_contains_key(t.inner_nodes, key) THEN Ret(t, RNone)
    ELSE LET inner_node == sm_get(t.inner_nodes, key)
             sm1 == sm_remove(t.inner_nodes, key)
         IN Ret([t EXCEPT !.inner_nodes =
                    sm_set(sm1, inner_node.parent_key,
                           [sm_get(sm1, inner_node.parent_key) EXCEPT
                               !.child_keys = ix_shift_remove(@, key)])],
                RValue(inner_node.value))

\* Mutant of remove_non_root: the subtree is removed and the parent's
\* child_keys still lists the key.
remove_non_root_keeps_link(t, key) ==
    IF ~sm_contains_key(t.inner_nodes, key) THEN Ret(t, RNone)
    ELSE LET inner_node == sm_get(t.inner_nodes, key)
             v == remove_visit(sm_remove(t.inner_nodes, key), inner_node.child_keys)
         IN IF ~v.ok THEN Ret([t EXCEPT !.inner_nodes = v.sm], RPanic)
            ELSE Ret([t EXCEPT !.inner_nodes = v.sm], RValue(inner_node.value))

\* Mutant of remove_non_root: the value returned is the parent's.
remove_non_root_parent_value(t, key) ==
    IF ~sm_contains_key(t.inner_nodes, key) THEN Ret(t, RNone)
    ELSE LET inner_node == sm_get(t.inner_nodes, key)
             v == remove_visit(sm_remove(t.inner_nodes, key), inner_node.child_keys)
             parent_key == inner_node.parent_key
         IN IF ~v.ok \/ parent_key = None \/ ~sm_contains_key(v.sm, parent_key)
            THEN Ret([t EXCEPT !.inner_nodes = v.sm], RPanic)
            ELSE Ret([t EXCEPT !.inner_nodes =
                         sm_set(v.sm, parent_key,
                                [sm_get(v.sm, parent_key) EXCEPT
                                    !.child_keys = ix_shift_remove(@, key)])],
                     RValue(sm_get(v.sm, parent_key).value))

remove_non_root(t, key) ==
    IF ~sm_contains_key(t.inner_nodes, key) THEN Ret(t, RNone)
    ELSE LET inner_node == sm_get(t.inner_nodes, key)
             v == remove_visit(sm_remove(t.inner_nodes, key), inner_node.child_keys)
             parent_key == inner_node.parent_key
         IN IF ~v.ok \/ parent_key = None \/ ~sm_contains_key(v.sm, parent_key)
            THEN Ret([t EXCEPT !.inner_nodes = v.sm], RPanic)
            ELSE Ret([t EXCEPT !.inner_nodes =
                         sm_set(v.sm, parent_key,
                                [sm_get(v.sm, parent_key) EXCEPT
                                    !.child_keys = ix_shift_remove(@, key)])],
                     RValue(inner_node.value))

\* Mutant of remove: the removal is done and the value is dropped, so that
\* none is returned.
remove_silent(t, key) ==
    IF t.root_key = None THEN Ret(t, RNone)
    ELSE IF key = t.root_key THEN Ret(remove_root(t, t.root_key).tree, RNone)
    ELSE Ret(remove_non_root(t, key).tree, RNone)

remove(t, key) ==
    IF t.root_key = None THEN Ret(t, RNone)
    ELSE IF key = t.root_key THEN remove_root(t, t.root_key)
    ELSE remove_non_root(t, key)

\* Mutant of walk_1: the parents passed on the way up are not put in path.
RECURSIVE walk_1_no_path(_, _, _, _, _)
walk_1_no_path(sm, current_parent_key, key_2, path, fuel) ==
    IF current_parent_key = None THEN [found |-> FALSE, path |-> path, ok |-> TRUE]
    ELSE IF current_parent_key = key_2
    THEN [found |-> TRUE, path |-> path, ok |-> TRUE]
    ELSE IF fuel = 0 \/ ~sm_contains_key(sm, current_parent_key)
    THEN [found |-> FALSE, path |-> path, ok |-> FALSE]
    ELSE walk_1_no_path(sm, sm_get(sm, current_parent_key).parent_key, key_2,
                        path, fuel - 1)

\* First walk of get_relationship, up key_1's parent chain: <<TRUE, path>>
\* when key_2 is met, <<FALSE, path>> at the root.  fuel bounds the walk by
\* the number of nodes; a walk that outlives it never ends.
RECURSIVE walk_1(_, _, _, _, _)
walk_1(sm, current_parent_key, key_2, path, fuel) ==
    IF current_parent_key = None THEN [found |-> FALSE, path |-> path, ok |-> TRUE]
    ELSE IF current_parent_key = key_2
    THEN [found |-> TRUE, path |-> path, ok |-> TRUE]
    ELSE IF fuel = 0 \/ ~sm_contains_key(sm, current_parent_key)
    THEN [found |-> FALSE, path |-> path, ok |-> FALSE]
    ELSE walk_1(sm, sm_get(sm, current_parent_key).parent_key, key_2,
                ix_insert(path, current_parent_key), fuel - 1)

\* Mutant of walk_2: meeting key_1 on key_2's parent chain is reported as
\* a common ancestor.
RECURSIVE walk_2_reports_siblings(_, _, _, _, _, _)
walk_2_reports_siblings(sm, current_parent_key, key_1, key_2, path, fuel) ==
    IF current_parent_key = None THEN RelUnreachable
    ELSE IF current_parent_key = key_1 THEN Siblings(key_1)
    ELSE IF ix_contains(path, current_parent_key)
    THEN Siblings(current_parent_key)
    ELSE IF fuel = 0 \/ ~sm_contains_key(sm, current_parent_key)
    THEN RelUnreachable
    ELSE walk_2_reports_siblings(sm, sm_get(sm, current_parent_key).parent_key,
                                 key_1, key_2, path, fuel - 1)

\* Second walk, up key_2's parent chain.
RECURSIVE walk_2(_, _, _, _, _, _)
walk_2(sm, current_parent_key, key_1, key_2, path, fuel) ==
    IF current_parent_key = None THEN RelUnreachable
    ELSE IF current_parent_key = key_1 THEN Ancestral(key_1, key_2)
    ELSE IF ix_contains(path, current_parent_key)
    THEN Siblings(current_parent_key)
    ELSE IF fuel = 0 \/ ~sm_contains_key(sm, current_parent_key)
    THEN RelUnreachable
    ELSE walk_2(sm, sm_get(sm, current_parent_key).parent_key, key_1, key_2,
                path, fuel - 1)

\* Mutant of get_relationship_inner: the second walk is left out and the
\* root is reported as the common ancestor.
get_relationship_inner_root(t, key_1, key_2) ==
    IF key_1 = key_2 THEN Same
    ELSE LET sm == t.inner_nodes
             w == walk_1(sm, sm_get(sm, key_1).parent_key, key_2, <<>>, sm_len(sm))
             u == walk_1(sm, sm_get(sm, key_2).parent_key, key_1, <<>>, sm_len(sm))
         IN IF w.found THEN Ancestral(key_2, key_1)
            ELSE IF u.found THEN Ancestral(key_1, key_2)
            ELSE Siblings(t.root_key)

\* Mutant of get_relationship_inner: the first walk reports the roles the
\* wrong way round.
get_relationship_inner_swapped(t, key_1, key_2) ==
    IF key_1 = key_2 THEN Same
    ELSE LET sm == t.inner_nodes
             w == walk_1(sm, sm_get(sm, key_1).parent_key, key_2, <<>>, sm_len(sm))
         IN IF ~w.ok THEN RelUnreachable
            ELSE IF w.found THEN Ancestral(key_1, key_2)
            ELSE walk_2(sm, sm_get(sm, key_2).parent_key, key_1, key_2,
                        w.path, sm_len(sm))

\* The inner fn get_relationship: both keys are in the tree.
get_relationship_inner(t, key_1, key_2) ==
    IF key_1 = key_2 THEN Same
    ELSE LET sm == t.inner_nodes
             w == walk_1(sm, sm_get(sm, key_1).parent_key, key_2, <<>>, sm_len(sm))
         IN IF ~w.ok THEN RelUnreachable
            ELSE IF w.found THEN Ancestral(key_2, key_1)
            ELSE walk_2(sm, sm_get(sm, key_2).parent_key, key_1, key_2,
                        w.path, sm_len(sm))

\* Mutant of get_relationship: equal keys are reported as Same before the
\* keys are looked up.
get_relationship_same_first(t, key_1, key_2) ==
    IF key_1 = key_2 THEN RRel(Same)
    ELSE IF ~(sm_contains_key(t.inner_nodes, key_1)
                /\ sm_contains_key(t.inner_nodes, key_2)) THEN RNone
    ELSE LET r == get_relationship_inner(t, key_1, key_2)
         IN IF r.kind = "Unreachable" THEN RPanic ELSE RRel(r)

\* Tree::get_relationship: RNone, RRel(relationship) or RPanic.
get_relationship(t, key_1, key_2) ==
    LET key_1_exists == sm_contains_key(t.inner_nodes, key_1)
        key_2_exists == sm_contains_key(t.inner_nodes, key_2)
    IN IF ~(key_1_exists /\ key_2_exists) THEN RNone
       ELSE LET r == get_relationship_inner(t, key_1, key_2)
            IN IF r.kind = "Unreachable" THEN RPanic ELSE RRel(r)

\* update_depths: a work stack of <<depth, key>>; each popped node is
\* stamped and its children pushed with depth + 1.
RECURSIVE update_depths_visit(_, _)
update_depths_visit(sm, depths_and_keys_to_visit) ==
    IF depths_and_keys_to_visit = <<>>
    THEN [sm |-> sm, ok |-> TRUE, visited |-> <<>>]
    ELSE LET top == depths_and_keys_to_visit[Len(depths_and_keys_to_visit)]
             rest == SubSeq(depths_and_keys_to_visit, 1,
                            Len(depths_and_keys_to_visit) - 1)
             depth == top[1]
             key_to_visit == top[2]
         IN IF ~sm_contains_key(sm, key_to_visit)
            THEN [sm |-> sm, ok |-> FALSE, visited |-> <<key_to_visit>>]
            ELSE LET inner_node == sm_get(sm, key_to_visit)
                     new_depth == depth + 1
                     child_keys_to_visit ==
                         [i \in 1..Len(inner_node.child_keys) |->
                             <<new_depth, inner_node.child_keys[i]>>]
                 IN [update_depths_visit(
                        sm_set(sm, key_to_visit, [inner_node EXCEPT !.depth = depth]),
                        rest \o child_keys_to_visit)
                       EXCEPT !.visited = <<key_to_visit>> \o @]

update_depths(t, key, depth) ==
    LET v == update_depths_visit(t.inner_nodes, << <<depth, key>> >>)
    IN Ret([t EXCEPT !.inner_nodes = v.sm], IF v.ok THEN RUnit ELSE RPanic)

\* Mutant of rebase_generic: the node is detached from its parent and then
\* dropped from the map instead of being attached to the new parent.
rebase_generic_drops_node(t, key, new_parent_key) ==
    LET sm == t.inner_nodes
        current_parent_key == sm_get(sm, key).parent_key
    IN IF current_parent_key = None THEN Ret(t, RPanic)
       ELSE IF current_parent_key = new_parent_key THEN Ret(t, RUnit)
       ELSE Ret([t EXCEPT !.inner_nodes =
                    sm_remove(sm_set(sm, current_parent_key,
                                     [sm_get(sm, current_parent_key) EXCEPT
                                         !.child_keys = ix_shift_remove(@, key)]),
                              key)],
                RUnit)

\* Mutant of rebase_generic: the node is moved also when new_parent_key is
\* already its parent.
rebase_generic_always_moves(t, key, new_parent_key) ==
    LET sm == t.inner_nodes
        node == sm_get(sm, key)
        current_parent_key == node.parent_key
    IN IF current_parent_key = None THEN Ret(t, RPanic)
       ELSE LET sm1 == sm_set(sm, key, [node EXCEPT !.parent_key = new_parent_key])
                current_parent_node == sm_get(sm1, current_parent_key)
                sm2 == sm_set(sm1, current_parent_key,
                              [current_parent_node EXCEPT
                                  !.child_keys = ix_shift_remove(@, key)])
                new_parent_node == sm_get(sm2, new_parent_key)
                sm3 == sm_set(sm2, new_parent_key,
                              [new_parent_node EXCEPT
                                  !.child_keys = ix_insert(@, key)])
                new_depth == new_parent_node.depth + 1
                t3 == [t EXCEPT !.inner_nodes = sm3]
            IN IF current_parent_node.depth # new_depth
               THEN update_depths(t3, key, new_depth)
               ELSE Ret(t3, RUnit)

\* Mutant of rebase_generic: the new depth is written to the new parent as
\* well.
rebase_generic_stamps_new_parent(t, key, new_parent_key) ==
    LET sm == t.inner_nodes
        node == sm_get(sm, key)
        current_parent_key == node.parent_key
    IN IF current_parent_key = None THEN Ret(t, RPanic)
       ELSE IF current_parent_key = new_parent_key THEN Ret(t, RUnit)
       ELSE LET sm1 == sm_set(sm, key, [node EXCEPT !.parent_key = new_parent_key])
                current_parent_node == sm_get(sm1, current_parent_key)
                sm2 == sm_set(sm1, current_parent_key,
                              [current_parent_node EXCEPT
                                  !.child_keys = ix_shift_remove(@, key)])
                new_parent_node == sm_get(sm2, new_parent_key)
                new_depth == new_parent_node.depth + 1
                sm3 == sm_set(sm2, new_parent_key,
                              [new_parent_node EXCEPT
                                  !.child_keys = ix_insert(@, key),
                                  !.depth = new_depth])
                t3 == [t EXCEPT !.inner_nodes = sm3]
            IN IF current_parent_node.depth # new_depth
               THEN update_depths(t3, key, new_depth)
               ELSE Ret(t3, RUnit)

rebase_generic(t, key, new_parent_key) ==
    LET sm == t.inner_nodes
        node == sm_get(sm, key)
        current_parent_key == node.parent_key
    IN IF current_parent_key = None THEN Ret(t, RPanic)
       ELSE IF current_parent_key = new_parent_key THEN Ret(t, RUnit)
       ELSE LET sm1 == sm_set(sm, key, [node EXCEPT !.parent_key = new_parent_key])
                current_parent_node == sm_get(sm1, current_parent_key)
                current_depth == current_parent_node.depth
                sm2 == sm_set(sm1, current_parent_key,
                              [current_parent_node EXCEPT
                                  !.child_keys = ix_shift_remove(@, key)])
                new_parent_node == sm_get(sm2, new_parent_key)
                new_parent_depth == new_parent_node.depth
                sm3 == sm_set(sm2, new_parent_key,
                              [new_parent_node EXCEPT
                                  !.child_keys = ix_insert(@, key)])
                new_depth == new_parent_depth + 1
                t3 == [t EXCEPT !.inner_nodes = sm3]
            IN IF current_depth # new_depth
               THEN update_depths(t3, key, new_depth)
               ELSE Ret(t3, RUnit)

\* The body is todo!(): the call panics before touching the tree.
rebase_onto_descendent(t, key, new_parent_key) == Ret(t, RPanic)

\* The inner fn rebase: dispatch on the relationship.
rebase_inner(t, relationship, key, new_parent_key) ==
    CASE relationship.kind = "Same" -> Ret(t, RUnit)
      [] relationship.kind = "Ancestral"
            /\ new_parent_key = relationship.ancestor_key ->
                rebase_generic(t, key, new_parent_key)
      [] relationship.kind = "Ancestral"
            /\ new_parent_key # relationship.ancestor_key
            /\ new_parent_key = relationship.descendent_key ->
                rebase_onto_descendent(t, key, new_parent_key)
      [] relationship.kind = "Siblings" ->
                rebase_generic(t, key, new_parent_key)
      [] OTHER -> Ret(t, RPanic)

\* Mutant of rebase: a Same relationship is reported as false.
rebase_false_on_same(t, key, new_parent_key) ==
    LET rel == get_relationship(t, key, new_parent_key)
    IN IF rel.kind = "none" THEN Ret(t, RBool(FALSE))
       ELSE IF rel.kind = "panic" THEN Ret(t, RPanic)
       ELSE IF rel.val.kind = "Same" THEN Ret(t, RBool(FALSE))
       ELSE LET r == rebase_inner(t, rel.val, key, new_parent_key)
            IN IF r.ret.kind = "panic" THEN r ELSE Ret(r.tree, RBool(TRUE))

\* Mutant of rebase: the result of get_relationship is not looked at and
\* true is returned also when there is no relationship.
rebase_true_on_missing(t, key, new_parent_key) ==
    LET rel == get_relationship(t, key, new_parent_key)
    IN IF rel.kind = "none" THEN Ret(t, RBool(TRUE))
       ELSE IF rel.kind = "panic" THEN Ret(t, RPanic)
       ELSE LET r == rebase_inner(t, rel.val, key, new_parent_key)
            IN IF r.ret.kind = "panic" THEN r ELSE Ret(r.tree, RBool(TRUE))

\* Tree::rebase: true whenever the relationship exists.
rebase(t, key, new_parent_key) ==
    LET rel == get_relationship(t, key, new_parent_key)
    IN IF rel.kind = "none" THEN Ret(t, RBool(FALSE))
       ELSE IF rel.kind = "panic" THEN Ret(t, RPanic)
       ELSE LET r == rebase_inner(t, rel.val, key, new_parent_key)
            IN IF r.ret.kind = "panic" THEN r ELSE Ret(r.tree, RBool(TRUE))

-----------------------------------------------------------------------------
(* The calls with their capacity arguments.  The operators above are the   *)
(* calls without a hint (size_hint None, capacity 0); the ones below add   *)
(* the buffer that the hint sizes.  Vec::with_capacity and                 *)
(* IndexSet::with_capacity panic with a capacity overflow when the         *)
(* requested buffer is larger than isize::MAX bytes.                       *)

\* size_hint: Option<usize>, None as the empty sequence and Some(n) as <<n>>.
NoHint == <<>>

\* The largest number of entries a buffer can be asked to hold; a tree
\* never has more nodes than that.
CapacityLimit == MaxInserts

\* usize::MAX.
HugeHint == CapacityLimit + 1

\* Vec::with_capacity(capacity) and IndexSet::with_capacity(capacity):
\* TRUE when the buffer is allocated, FALSE when the call panics.
with_capacity(capacity) == capacity <= CapacityLimit

\* remove_non_root with its size_hint: the node is taken out of the map,
\* then the work stack is allocated, then the descendants are drained.
remove_non_root_hinted(t, key, size_hint) ==
    IF ~sm_contains_key(t.inner_nodes, key) THEN Ret(t, RNone)
    ELSE LET sm1 == sm_remove(t.inner_nodes, key)
             hint == IF size_hint = NoHint THEN sm_len(sm1) ELSE size_hint[1]
         IN IF ~with_capacity(hint)
            THEN Ret([t EXCEPT !.inner_nodes = sm1], RPanic)
            ELSE remove_non_root(t, key)

\* Tree::remove(key, size_hint).
remove_hinted(t, key, size_hint) ==
    IF t.root_key = None THEN Ret(t, RNone)
    ELSE IF key = t.root_key THEN remove_root(t, t.root_key)
    ELSE remove_non_root_hinted(t, key, size_hint)

\* update_depths with its size_hint: the work stack is allocated first.
update_depths_hinted(t, key, depth, size_hint) ==
    LET hint == IF size_hint = NoHint THEN 0 ELSE size_hint[1]
    IN IF ~with_capacity(hint) THEN Ret(t, RPanic)
       ELSE update_depths(t, key, depth)

\* rebase_generic with its size_hint.
rebase_generic_hinted(t, key, new_parent_key, size_hint) ==
    LET sm == t.inner_nodes
        node == sm_get(sm, key)
        current_parent_key == node.parent_key
    IN IF current_parent_key = None THEN Ret(t, RPanic)
       ELSE IF current_parent_key = new_parent_key THEN Ret(t, RUnit)
       ELSE LET sm1 == sm_set(sm, key, [node EXCEPT !.parent_key = new_parent_key])
                current_parent_node == sm_get(sm1, current_parent_key)
                current_depth == current_parent_node.depth
                sm2 == sm_set(sm1, current_parent_key,
                              [current_parent_node EXCEPT
                                  !.child_keys = ix_shift_remove(@, key)])
                new_parent_node == sm_get(sm2, new_parent_key)
                sm3 == sm_set(sm2, new_parent_key,
                              [new_parent_node EXCEPT
                                  !.child_keys = ix_insert(@, key)])
                new_depth == new_parent_node.depth + 1
                t3 == [t EXCEPT !.inner_nodes = sm3]
            IN IF current_depth # new_depth
               THEN update_depths_hinted(t3, key, new_depth, size_hint)
               ELSE Ret(t3, RUnit)

\* The inner fn rebase with its size_hint.
rebase_inner_hinted(t, relationship, key, new_parent_key, size_hint) ==
    CASE relationship.kind = "Same" -> Ret(t, RUnit)
      [] relationship.kind = "Ancestral"
            /\ new_parent_key = relationship.ancestor_key ->
                rebase_generic_hinted(t, key, new_parent_key, size_hint)
      [] relationship.kind = "Ancestral"
            /\ new_parent_key # relationship.ancestor_key
            /\ new_parent_key = relationship.descendent_key ->
                rebase_onto_descendent(t, key, new_parent_key)
      [] relationship.kind = "Siblings" ->
                rebase_generic_hinted(t, key, new_parent_key, size_hint)
      [] OTHER -> Ret(t, RPanic)

\* Tree::rebase(key, new_parent_key, size_hint).
rebase_hinted(t, key, new_parent_key, size_hint) ==
    LET rel == get_relationship(t, key, new_parent_key)
    IN IF rel.kind = "none" THEN Ret(t, RBool(FALSE))
       ELSE IF rel.kind = "panic" THEN Ret(t, RPanic)
       ELSE LET r == rebase_inner_hinted(t, rel.val, key, new_parent_key, size_hint)
            IN IF r.ret.kind = "panic" THEN r ELSE Ret(r.tree, RBool(TRUE))

\* Tree::insert_with_capacity(value, parent_key, capacity): the child set
\* of the new node is allocated before the node is inserted.
insert_with_capacity_hinted(t, value, parent_key, capacity) ==
    IF ~sm_contains_key(t.inner_nodes, parent_key) THEN Ret(t, RNone)
    ELSE IF ~with_capacity(capacity) THEN Ret(t, RPanic)
    ELSE insert_with_capacity(t, value, parent_key)

\* Tree::insert_root_with_capacity(value, capacity): the tree is cleared,
\* then the child set of the new root is allocated.
insert_root_with_capacity_hinted(t, value, capacity) ==
    IF ~with_capacity(capacity)
    THEN Ret(IF t.root_key # None THEN clear(t) ELSE t, RPanic)
    ELSE insert_root_with_capacity(t, value)

-----------------------------------------------------------------------------
(* TreeBuilder: Option<(V, Vec<(V, usize)>)>.  The root has index 0, the   *)
(* hook at position i of the vector has index i (positions count from 1).  *)

\* TreeBuilder::default(): Self(None).
NoBuilder == [is_some |-> FALSE, root_value |-> 0, hooks |-> <<>>]

SomeBuilder(root_value, hooks) ==
    [is_some |-> TRUE, root_value |-> root_value, hooks |-> hooks]

\* The two builders of a run.
BuilderIds == {1, 2}

RIndex(i) == [kind |-> "index", val |-> i]

\* The outcome of a builder call: the builder after it and what it returns.
BRet(b, r) == [builder |-> b, ret |-> r]

push_root(b, root_value) ==
    IF b.is_some THEN BRet(b, RPanic)
    ELSE BRet(SomeBuilder(root_value, <<>>), RIndex(0))

\* Mutant of push: the bound on parent_index is one too large.
push_off_by_one(b, value, parent_index) ==
    IF ~b.is_some THEN BRet(b, RPanic)
    ELSE IF parent_index <= Len(b.hooks) + 1
    THEN BRet([b EXCEPT !.hooks = Append(@, <<value, parent_index>>)],
              RIndex(Len(b.hooks) + 1))
    ELSE BRet(b, RPanic)

push(b, value, parent_index) ==
    IF ~b.is_some THEN BRet(b, RPanic)
    ELSE LET length == Len(b.hooks)
             augmented_length == length + 1
         IN IF parent_index <= augmented_length - 1
            THEN BRet([b EXCEPT !.hooks = Append(@, <<value, parent_index>>)],
                      RIndex(augmented_length))
            ELSE BRet(b, RPanic)

\* Mutant of extend: other's parent indices are shifted by the number of
\* hooks, not counting the root.
extend_shifts_by_length(b, other, parent_index) ==
    CASE b.is_some /\ other.is_some ->
            IF parent_index <= Len(b.hooks)
            THEN BRet([b EXCEPT !.hooks =
                          Append(@, <<other.root_value, parent_index>>)
                          \o [i \in 1..Len(other.hooks) |->
                                <<other.hooks[i][1],
                                  Len(b.hooks) + other.hooks[i][2]>>]],
                      RUnit)
            ELSE BRet(b, RPanic)
      [] b.is_some /\ ~other.is_some -> BRet(b, RUnit)
      [] ~b.is_some /\ other.is_some ->
            BRet(SomeBuilder(other.root_value, other.hooks), RUnit)
      [] OTHER -> BRet(b, RUnit)

\* extend consumes other; the builder returned is self after the call.
extend(b, other, parent_index) ==
    CASE b.is_some /\ other.is_some ->
            LET length == Len(b.hooks)
                augmented_length == length + 1
            IN IF parent_index <= augmented_length - 1
               THEN BRet([b EXCEPT !.hooks =
                             Append(@, <<other.root_value, parent_index>>)
                             \o [i \in 1..Len(other.hooks) |->
                                   <<other.hooks[i][1],
                                     augmented_length + other.hooks[i][2]>>]],
                         RUnit)
               ELSE BRet(b, RPanic)
      [] b.is_some /\ ~other.is_some -> BRet(b, RUnit)
      [] ~b.is_some /\ other.is_some ->
            BRet(SomeBuilder(other.root_value, other.hooks), RUnit)
      [] OTHER -> BRet(b, RUnit)

\* The loop of finish: one insert per hook, under the key that keys holds
\* at the hook's parent index.
RECURSIVE finish_hooks(_, _, _)
finish_hooks(tree, keys, hooks) ==
    IF hooks = <<>> THEN Ret(tree, RUnit)
    ELSE LET value == hooks[1][1]
             parent_index == hooks[1][2]
         IN IF parent_index + 1 > Len(keys) THEN Ret(tree, RPanic)
            ELSE LET r == insert_with_capacity(tree, value, keys[parent_index + 1])
                 IN IF r.ret.kind # "key" THEN Ret(r.tree, RPanic)
                    ELSE finish_hooks(r.tree, Append(keys, r.ret.val), Tail(hooks))

\* TreeBuilder::finish: the tree it returns, or a panic.
finish(b) ==
    LET tree == [root_key |-> None, inner_nodes |-> EmptySlotMap]
    IN IF ~b.is_some THEN Ret(tree, RUnit)
       ELSE LET r == insert_root_with_capacity(tree, b.root_value)
            IN finish_hooks(r.tree, <<r.ret.val>>, b.hooks)

-----------------------------------------------------------------------------
(* The tree descriptions of the tests: DeserialNode(value, children).  An   *)
(* Option<DeserialNode> is <<>> for None and <<node>> for Some(node).       *)

DeserialNode(value, children) == [value |-> value, children |-> children]

\* No description has been given yet.
NotDeclared == [stage |-> "none", given |-> <<>>, key_map |-> <<>>, read |-> <<>>]

\* The recursive fn insert of make_tree_and_key_map, on one node and on
\* the children of a node in listed order.  st is the tree and the key map
\* so far; ok turns FALSE when an unwrap or the assert fails.
RECURSIVE insert_node(_, _, _), insert_nodes(_, _, _)
insert_node(st, deserial_node, parent_key) ==
    IF ~st.ok THEN st
    ELSE LET r == IF parent_key # None
                  THEN insert_with_capacity(st.tree, deserial_node.value, parent_key)
                  ELSE insert_root_with_capacity(st.tree, deserial_node.value)
         IN IF r.ret.kind # "key" THEN [st EXCEPT !.ok = FALSE]
            ELSE IF deserial_node.value \in DOMAIN st.key_map
            THEN [tree |-> r.tree, key_map |-> st.key_map, ok |-> FALSE]
            ELSE insert_nodes([tree |-> r.tree,
                               key_map |-> st.key_map
                                            @@ (deserial_node.value :> r.ret.val),
                               ok |-> TRUE],
                              deserial_node.children, r.ret.val)

insert_nodes(st, deserial_nodes, parent_key) ==
    IF deserial_nodes = <<>> THEN st
    ELSE insert_nodes(insert_node(st, deserial_nodes[1], parent_key),
                      Tail(deserial_nodes), parent_key)

\* make_tree_and_key_map(deserial_node).
make_tree_and_key_map(deserial_node) ==
    LET st == [tree |-> [root_key |-> None, inner_nodes |-> EmptySlotMap],
               key_map |-> <<>>, ok |-> TRUE]
    IN IF deserial_node = <<>> THEN st
       ELSE insert_node(st, deserial_node[1], None)

\* The recursive fn make_deserial_node: the node read through get and the
\* children read in the order of child_keys.  ok is FALSE when the unwrap
\* or the assert on the parent key fails.
RECURSIVE read_node(_, _, _)
read_node(tree, key, parent_key) ==
    IF ~contains(tree, key) THEN [ok |-> FALSE, node |-> DeserialNode(0, <<>>)]
    ELSE LET node == sm_get(tree.inner_nodes, key)
             children == [i \in 1..Len(node.child_keys) |->
                             read_node(tree, node.child_keys[i], key)]
         IN [ok |-> node.parent_key = parent_key
                      /\ \A i \in 1..Len(children) : children[i].ok,
             node |-> DeserialNode(node.value,
                                   [i \in 1..Len(children) |-> children[i].node])]

\* make_deserial_node(tree): [ok, description].
make_deserial_node(tree) ==
    IF tree.root_key = None THEN [ok |-> TRUE, node |-> <<>>]
    ELSE LET r == read_node(tree, tree.root_key, None)
         IN [ok |-> r.ok, node |-> <<r.node>>]

-----------------------------------------------------------------------------
(* The state machine: one action per public call.                          *)

\* The tree held in the variables.
T == [root_key |-> root_key, inner_nodes |-> inner_nodes]

LiveOf(t) == sm_keys(t.inner_nodes)

\* The node of a live key.
NodeOf(t, k) == sm_get(t.inner_nodes, k)

\* The proper ancestors of a live key, by its parent chain.
RECURSIVE AncestorsFrom(_, _, _)
AncestorsFrom(sm, k, fuel) ==
    IF fuel = 0 \/ ~sm_contains_key(sm, k) \/ sm_get(sm, k).parent_key = None
    THEN {}
    ELSE {sm_get(sm, k).parent_key}
            \cup AncestorsFrom(sm, sm_get(sm, k).parent_key, fuel - 1)

AncestorsOf(t, k) == AncestorsFrom(t.inner_nodes, k, sm_len(t.inner_nodes))

\* The live keys whose node is k or lies below k.
SubtreeOf(t, k) == {n \in LiveOf(t) : n = k \/ k \in AncestorsOf(t, n)}

DescendantsOf(t, k) == SubtreeOf(t, k) \ {k}

Live == LiveOf(T)
N(k) == NodeOf(T, k)
Ancestors(k) == AncestorsOf(T, k)
Subtree(k) == SubtreeOf(T, k)
Descendants(k) == DescendantsOf(T, k)

\* Keys a caller can pass: every key this tree has returned (live or
\* stale) and the null key, which stands for the keys it never returned.
ArgKeys == issued \cup {NullKey}

\* The values a caller stores.  V is an opaque type parameter that no
\* operation inspects, so callers label the nodes 0, 1, 2, ... by order of
\* insertion, as the tests do: distinct labels tell the nodes apart.
Values == {Cardinality(issued)}

\* Sequences without repetition over S.
InjSeqs(S) ==
    UNION {{s \in [1..m -> S] : \A i, j \in 1..m : i # j => s[i] # s[j]} :
           m \in 0..Cardinality(S)}

\* What a reorder closure may return for a node with children child_keys:
\* any arrangement of any subset of them, or a sequence that holds a key
\* which is not a child (alone, or after one child).
ReorderedKeys(child_keys) ==
    LET children == Range(child_keys)
        others == ArgKeys \ children
    IN InjSeqs(children)
          \cup {<<x>> : x \in others}
          \cup {<<c, x>> : c \in children, x \in others}

\* The record of a call; changed says whether it changed the tree.
NoOp == [name |-> "new", key |-> None, key2 |-> None, seq |-> <<>>,
         value |-> 0, ret |-> RUnit, changed |-> TRUE]

Call(name, key, key2, seq, value, ret) ==
    [name |-> name, key |-> key, key2 |-> key2, seq |-> seq,
     value |-> value, ret |-> ret, changed |-> FALSE]

\* A panic ends the run.
Halted == op.ret.kind = "panic"

\* Calls are explored from the states a tree-changing call (or the
\* construction) has left.  A call that leaves the tree as it was (a query,
\* a failed call, a no-op) is recorded in op and not explored further: no
\* operation reads op, so what follows it is what follows the same tree.
Ready == ~Halted /\ op.changed

InsertsLeft == Cardinality(issued) < MaxInserts

\* A call that leaves the tree as it was is always allowed; one that
\* changes it needs an edit left.
EditAllowed(r) == r.tree = T \/ edits < MaxEdits

Edited(r) == IF r.tree = T THEN edits ELSE edits + 1

\* Writes a call's effect r to the variables; destroyed are the keys whose
\* nodes the call is to destroy.
Commit(call, r, destroyed) ==
    /\ root_key' = r.tree.root_key
    /\ inner_nodes' = r.tree.inner_nodes
    /\ op' = [call EXCEPT !.changed = (r.tree # T)]
    /\ issued' = issued \cup (IF r.ret.kind = "key" /\ call.name # "get"
                              THEN {r.ret.val} ELSE {})
    /\ dead' = dead \cup (IF r.ret.kind = "panic" THEN {} ELSE destroyed)
    /\ edits' = IF call.name \in {"insert_root", "insert",
                                  "insert_root_with_capacity",
                                  "insert_with_capacity"}
                THEN edits
                ELSE Edited(r)
    /\ prev' = T
    /\ UNCHANGED <<builders, declared>>

Init ==
    /\ root_key = None
    /\ inner_nodes = EmptySlotMap
    /\ op = NoOp
    /\ issued = {}
    /\ dead = {}
    /\ edits = 0
    /\ prev = [root_key |-> None, inner_nodes |-> EmptySlotMap]
    /\ builders = [b \in BuilderIds |-> NoBuilder]
    /\ declared = NotDeclared

CallInsertRoot ==
    /\ Ready /\ InsertsLeft
    /\ \E value \in Values :
        LET r == insert_root_with_capacity(T, value)
        IN Commit(Call("insert_root", None, None, <<>>, value, r.ret), r, Live)

CallInsert ==
    /\ Ready /\ InsertsLeft
    /\ \E value \in Values, parent_key \in ArgKeys :
        LET r == insert_with_capacity(T, value, parent_key)
        IN Commit(Call("insert", None, parent_key, <<>>, value, r.ret), r, {})

CallReorderChildren ==
    /\ Ready
    /\ \E key \in ArgKeys :
        \E reordered_keys \in
              IF key \in Live THEN ReorderedKeys(N(key).child_keys) ELSE {<<>>} :
            LET r == reorder_children(T, key, reordered_keys)
            IN EditAllowed(r) /\ Commit(Call("reorder_children", key, None, reordered_keys, 0, r.ret),
                      r,
                      IF r.ret = RBool(TRUE)
                      THEN UNION {Subtree(c) :
                                    c \in Range(N(key).child_keys)
                                            \ Range(reordered_keys)}
                      ELSE {})

CallRemove ==
    /\ Ready
    /\ \E key \in ArgKeys :
        LET r == remove(T, key)
        IN EditAllowed(r) /\ Commit(Call("remove", key, None, <<>>, 0, r.ret), r,
                  IF key \in Live THEN Subtree(key) ELSE {})

CallRebase ==
    /\ Ready
    /\ \E key \in ArgKeys, new_parent_key \in ArgKeys :
        LET r == rebase(T, key, new_parent_key)
        IN EditAllowed(r) /\ Commit(Call("rebase", key, new_parent_key, <<>>, 0, r.ret), r, {})

CallClear ==
    /\ Ready
    /\ EditAllowed(Ret(clear(T), RUnit))
    /\ Commit(Call("clear", None, None, <<>>, 0, RUnit), Ret(clear(T), RUnit), Live)

CallGet ==
    /\ Ready
    /\ \E key \in ArgKeys :
        Commit(Call("get", key, None, <<>>, 0, get(T, key)), Ret(T, get(T, key)), {})

CallContains ==
    /\ Ready
    /\ \E key \in ArgKeys :
        Commit(Call("contains", key, None, <<>>, 0, RBool(contains(T, key))),
               Ret(T, RBool(contains(T, key))), {})

CallGetRelationship ==
    /\ Ready
    /\ \E key_1 \in ArgKeys, key_2 \in ArgKeys :
        LET r == get_relationship(T, key_1, key_2)
        IN Commit(Call("get_relationship", key_1, key_2, <<>>, 0, r), Ret(T, r), {})

Next ==
    \/ CallInsertRoot
    \/ CallInsert
    \/ CallReorderChildren
    \/ CallRemove
    \/ CallRebase
    \/ CallClear
    \/ CallGet
    \/ CallContains
    \/ CallGetRelationship

Spec == Init /\ [][Next]_vars

-----------------------------------------------------------------------------
(* The calls that take a capacity argument, with that argument.            *)

\* The size hints a caller passes: none, zero, usize::MAX.
SizeHints == {NoHint, <<0>>, <<HugeHint>>}

\* The capacities a caller passes: zero, usize::MAX.
Capacities == {0, HugeHint}

\* The record of a call that took a capacity argument.
HintedCall(name, key, key2, value, hint, ret) ==
    Call(name, key, key2, <<>>, value, ret) @@ [hint |-> hint]

CallInsertRootWithCapacity ==
    /\ Ready /\ InsertsLeft
    /\ \E value \in Values, capacity \in Capacities :
        LET r == insert_root_with_capacity_hinted(T, value, capacity)
        IN Commit(HintedCall("insert_root_with_capacity", None, None, value,
                             capacity, r.ret),
                  r, Live)

CallInsertWithCapacity ==
    /\ Ready /\ InsertsLeft
    /\ \E value \in Values, parent_key \in ArgKeys, capacity \in Capacities :
        LET r == insert_with_capacity_hinted(T, value, parent_key, capacity)
        IN Commit(HintedCall("insert_with_capacity", None, parent_key, value,
                             capacity, r.ret),
                  r, {})

CallRemoveHinted ==
    /\ Ready
    /\ \E key \in ArgKeys, size_hint \in SizeHints :
        LET r == remove_hinted(T, key, size_hint)
        IN EditAllowed(r)
           /\ Commit(HintedCall("remove", key, None, 0, size_hint, r.ret), r,
                     IF key \in Live THEN Subtree(key) ELSE {})

CallRebaseHinted ==
    /\ Ready
    /\ \E key \in ArgKeys, new_parent_key \in ArgKeys, size_hint \in SizeHints :
        LET r == rebase_hinted(T, key, new_parent_key, size_hint)
        IN EditAllowed(r)
           /\ Commit(HintedCall("rebase", key, new_parent_key, 0, size_hint,
                                r.ret),
                     r, {})

NextHints ==
    \/ CallInsertRootWithCapacity
    \/ CallInsertWithCapacity
    \/ CallRemoveHinted
    \/ CallRebaseHinted

SpecHints == Init /\ [][NextHints]_vars

-----------------------------------------------------------------------------
(* The TreeBuilder calls.  Two builders are staged side by side, extend    *)
(* moves one into the other, finish turns one into the tree.               *)

\* The number of values staged so far; it labels the next one.
Staged ==
    LET size(b) == IF builders[b].is_some THEN 1 + Len(builders[b].hooks) ELSE 0
    IN size(1) + size(2)

\* finish builds one node per staged value.
StagedLeft == Staged < MaxInserts

\* The parent indices a caller passes.
ParentIndices == 0..MaxInserts

BuilderReady == ~Halted /\ op.name # "finish"

\* Writes a builder call's effect: bs are the builders after it.
BuilderCommit(call, bs) ==
    /\ builders' = (IF call.ret.kind = "panic" THEN builders ELSE bs)
    /\ op' = call
    /\ UNCHANGED <<root_key, inner_nodes, issued, dead, edits, prev, declared>>

CallPushRoot ==
    /\ BuilderReady /\ StagedLeft
    /\ \E b \in BuilderIds :
        LET r == push_root(builders[b], Staged)
        IN BuilderCommit(Call("push_root", None, None, <<b>>, Staged, r.ret),
                         [builders EXCEPT ![b] = r.builder])

CallPush ==
    /\ BuilderReady /\ StagedLeft
    /\ \E b \in BuilderIds, parent_index \in ParentIndices :
        LET r == push(builders[b], Staged, parent_index)
        IN BuilderCommit(Call("push", None, None, <<b, parent_index>>, Staged, r.ret),
                         [builders EXCEPT ![b] = r.builder])

\* other is moved into the call; a default builder takes its place.  The
\* record of the call holds self and other as they were given.
CallExtend ==
    /\ BuilderReady
    /\ \E b \in BuilderIds, other \in BuilderIds, parent_index \in ParentIndices :
        /\ b # other
        /\ LET r == extend(builders[b], builders[other], parent_index)
           IN BuilderCommit(Call("extend", None, None, <<b, other, parent_index>>,
                                 0, r.ret)
                                @@ [self |-> builders[b], other |-> builders[other]],
                            [builders EXCEPT ![b] = r.builder,
                                             ![other] = NoBuilder])

\* finish(self): the tree it returns is written to the tree variables; the
\* builder is kept as the record of what was staged.
CallFinish ==
    /\ BuilderReady
    /\ \E b \in BuilderIds :
        LET r == finish(builders[b])
        IN /\ root_key' = r.tree.root_key
           /\ inner_nodes' = r.tree.inner_nodes
           /\ op' = Call("finish", None, None, <<b>>, 0, r.ret)
           /\ issued' = sm_keys(r.tree.inner_nodes)
           /\ prev' = T
           /\ UNCHANGED <<dead, edits, builders, declared>>

NextBuilder ==
    \/ CallPushRoot
    \/ CallPush
    \/ CallExtend
    \/ CallFinish

SpecBuilder == Init /\ [][NextBuilder]_vars

-----------------------------------------------------------------------------
(* The round trip of the tests: a description is given, the tree is made   *)
(* from it, and the description is read back from the tree.                 *)

\* The descriptions whose nodes carry the labels of L, each label once, and
\* the sequences of such descriptions.
RECURSIVE NodesOver(_), ForestsOver(_)
NodesOver(L) ==
    UNION {{DeserialNode(v, f) : f \in ForestsOver(L \ {v})} : v \in L}

ForestsOver(L) ==
    IF L = {} THEN {<<>>}
    ELSE UNION {UNION {{<<n>> \o f : n \in NodesOver(S)}
                         : f \in ForestsOver(L \ S)}
                  : S \in {X \in SUBSET L : X # {}}}

\* The descriptions a test gives: none, or a tree of up to MaxInserts nodes
\* labelled 1, 2, ...
Descriptions ==
    {<<>>} \cup UNION {{<<n>> : n \in NodesOver(1..m)} : m \in 1..MaxInserts}

DeclareTree ==
    /\ declared.stage = "none"
    /\ \E d \in Descriptions :
          declared' = [NotDeclared EXCEPT !.stage = "given", !.given = d]
    /\ op' = Call("declare", None, None, <<>>, 0, RUnit)
    /\ UNCHANGED <<root_key, inner_nodes, issued, dead, edits, prev, builders>>

CallMakeTree ==
    /\ declared.stage = "given"
    /\ LET st == make_tree_and_key_map(declared.given)
       IN /\ root_key' = st.tree.root_key
          /\ inner_nodes' = st.tree.inner_nodes
          /\ declared' = [declared EXCEPT !.stage = "made", !.key_map = st.key_map]
          /\ op' = Call("make_tree_and_key_map", None, None, <<>>, 0,
                        IF st.ok THEN RUnit ELSE RPanic)
          /\ issued' = sm_keys(st.tree.inner_nodes)
          /\ prev' = T
          /\ UNCHANGED <<dead, edits, builders>>

CallMakeDeserialNode ==
    /\ declared.stage = "made" /\ ~Halted
    /\ LET r == make_deserial_node(T)
       IN /\ declared' = [declared EXCEPT !.stage = "read", !.read = r.node]
          /\ op' = Call("make_deserial_node", None, None, <<>>, 0,
                        IF r.ok THEN RUnit ELSE RPanic)
          /\ UNCHANGED <<root_key, inner_nodes, issued, dead, edits, prev, builders>>

NextRoundTrip ==
    \/ DeclareTree
    \/ CallMakeTree
    \/ CallMakeDeserialNode

SpecRoundTrip == Init /\ [][NextRoundTrip]_vars

-----------------------------------------------------------------------------
(* Properties.  P is the tree before the last call, T the tree after it.    *)

P == prev

NoDuplicates(s) == \A i, j \in 1..Len(s) : i # j => s[i] # s[j]

\* The keys reached from k by following child_keys.
RECURSIVE ReachableFrom(_, _, _)
ReachableFrom(sm, k, fuel) ==
    IF fuel = 0 \/ ~sm_contains_key(sm, k) THEN {}
    ELSE {k} \cup UNION {ReachableFrom(sm, c, fuel - 1) :
                            c \in Range(sm_get(sm, k).child_keys)}

Reachable ==
    IF root_key = None THEN {}
    ELSE ReachableFrom(inner_nodes, root_key, sm_len(inner_nodes))

\* C1: in every reachable state the root has depth 0 and every live
\* non-root node's depth is its parent's depth plus 1.
C1_DepthsConsistent ==
    /\ (root_key # None => (root_key \in Live /\ N(root_key).depth = 0))
    /\ \A n \in Live :
          N(n).parent_key # None =>
              /\ N(n).parent_key \in Live
              /\ N(n).depth = N(N(n).parent_key).depth + 1

\* C2: in every reachable state, for every live node n, child_keys(n) has
\* no duplicates and is exactly the set of live keys whose parent_key is n.
C2_ChildrenMatchParents ==
    \A n \in Live :
        /\ NoDuplicates(N(n).child_keys)
        /\ Range(N(n).child_keys) = {c \in Live : N(c).parent_key = n}

\* A rebase has moved a node, and some node lists two children.
C2_Witness ==
    /\ op.name = "rebase" /\ op.changed
    /\ \E n \in Live : Len(N(n).child_keys) >= 2

\* C3: in every reachable state the nodes reachable from root_key by
\* child_keys are exactly the live keys: no live node is its own ancestor,
\* every live node's parent chain ends at the root, and len() counts the
\* reachable nodes.
C3_ReachableIsLive ==
    /\ Reachable = Live
    /\ \A n \in Live :
          /\ n \notin Ancestors(n)
          /\ Ancestors(n) \subseteq Live
          /\ (n = root_key \/ root_key \in Ancestors(n))
    /\ len(T) = Cardinality(Reachable)

\* A remove has destroyed a node together with a descendant, and part of
\* the tree is left.
C3_Witness ==
    /\ op.name = "remove" /\ op.ret.kind = "value"
    /\ root_key # None
    /\ Cardinality(LiveOf(P) \ Live) >= 2

\* C4: in every reachable state root_key is none exactly when the tree is
\* empty; in a non-empty tree exactly one live node has no parent, and it
\* is root_key.
C4_RootIffNonEmpty ==
    /\ (root_key = None <=> len(T) = 0)
    /\ (is_empty(T) <=> len(T) = 0)
    /\ (len(T) > 0 => {n \in Live : N(n).parent_key = None} = {root_key})

\* The root of a tree of several nodes has been removed.
C4_Witness ==
    /\ op.name = "remove" /\ op.ret.kind = "value"
    /\ op.key = P.root_key
    /\ Cardinality(LiveOf(P)) >= 2
    /\ root_key = None

\* Destroyed before the last call: in dead, and not live when the call began.
Stale(k) == k \in dead /\ k \notin LiveOf(P)

\* C5: a key whose node has been destroyed is never accepted again:
\* contains is false for it, every call given it reports failure, also once
\* its slot holds a later node, and every key insert_root or insert returns
\* differs from every key this tree returned before.
C5_StaleKeysRejected ==
    /\ \A k \in dead : ~contains(T, k)
    /\ (op.name = "contains" /\ Stale(op.key)) => op.ret = RBool(FALSE)
    /\ (op.name = "get" /\ Stale(op.key)) => op.ret = RNone
    /\ (op.name = "insert" /\ Stale(op.key2)) => op.ret = RNone
    /\ (op.name = "remove" /\ Stale(op.key)) => op.ret = RNone
    /\ (op.name = "rebase" /\ (Stale(op.key) \/ Stale(op.key2)))
          => op.ret = RBool(FALSE)
    /\ (op.name = "reorder_children"
            /\ (Stale(op.key) \/ \E k \in Range(op.seq) : Stale(k)))
          => op.ret = RBool(FALSE)
    /\ (op.name = "get_relationship" /\ (Stale(op.key) \/ Stale(op.key2)))
          => op.ret = RNone
    /\ (op.name \in {"insert_root", "insert"} /\ op.ret.kind = "key")
          => (op.ret.val \notin dead /\ op.ret.val \notin LiveOf(P)
              /\ op.ret.val # NullKey)

\* get is called with a destroyed key whose slot a live node now holds.
C5_Witness ==
    /\ op.name = "get" /\ op.key \in dead /\ op.ret = RNone
    /\ \E l \in Live : l[1] = op.key[1]

\* Whether the last call is one that destroys the node of k, a key live in P.
Destroys(k) ==
    CASE op.name \in {"insert_root", "clear"} -> TRUE
      [] op.name = "remove" ->
            /\ op.key \in LiveOf(P)
            /\ (op.key = k \/ op.key \in AncestorsOf(P, k))
      [] op.name = "reorder_children" ->
            /\ op.key \in LiveOf(P)
            /\ Range(op.seq) \subseteq Range(NodeOf(P, op.key).child_keys)
            /\ \E c \in Range(NodeOf(P, op.key).child_keys) \ Range(op.seq) :
                  c = k \/ c \in AncestorsOf(P, k)
      [] OTHER -> FALSE

\* C6: a live key stays live, with the same value, across every call that
\* does not destroy its node, and stops being live exactly at a call that
\* removes the node or an ancestor, omits one of them in reorder_children,
\* or wipes the tree (insert_root, clear).
C6_LiveUntilDestroyed ==
    \A k \in LiveOf(P) :
        /\ k \in Live <=> ~Destroys(k)
        /\ k \in Live => N(k).value = NodeOf(P, k).value

\* A reorder_children has kept one child and omitted another, whose
\* descendant went with it.
C6_Witness ==
    /\ op.name = "reorder_children" /\ op.ret = RBool(TRUE)
    /\ Len(N(op.key).child_keys) >= 1
    /\ \E k \in LiveOf(P) \ Live :
          k \notin Range(NodeOf(P, op.key).child_keys)

\* C7: no call of a public operation aborts or panics, whatever keys it is
\* given.
C7_NoPanic == op.ret.kind # "panic"

\* child_keys with x replaced by y.
Replaced(child_keys, x, y) ==
    [i \in 1..Len(child_keys) |-> IF child_keys[i] = x THEN y ELSE child_keys[i]]

\* The last call is rebase(X, Y) with Y a proper descendant of X.
OntoDescendant ==
    /\ op.name = "rebase"
    /\ op.key \in LiveOf(P) /\ op.key2 \in LiveOf(P)
    /\ op.key2 \in DescendantsOf(P, op.key)

\* C8: rebase(X, Y) with Y a proper descendant of X and X a child of P
\* returns true; afterwards Y has parent P and stands where X stood in P's
\* child order, X has parent Y and is in Y's child order, Y is gone from
\* its former parent's child order, every other node keeps its parent and
\* len() is unchanged.
C8_RebaseOntoDescendant ==
    (OntoDescendant /\ NodeOf(P, op.key).parent_key # None) =>
        LET X == op.key
            Y == op.key2
            XP == NodeOf(P, X).parent_key
            YP == NodeOf(P, Y).parent_key
        IN /\ op.ret = RBool(TRUE)
           /\ Live = LiveOf(P)
           /\ N(Y).parent_key = XP
           /\ N(XP).child_keys = Replaced(NodeOf(P, XP).child_keys, X, Y)
           /\ N(X).parent_key = Y
           /\ ix_contains(N(Y).child_keys, X)
           /\ ~ix_contains(N(YP).child_keys, Y)
           /\ \A n \in Live \ {X, Y} : N(n).parent_key = NodeOf(P, n).parent_key

\* C9: rebase(R, Y) with R the root and Y a proper descendant of R returns
\* true; afterwards Y is the root with no parent and depth 0, R is a child
\* of Y, Y is gone from its former parent's child order, the depths fit
\* the new shape and len() is unchanged.
C9_RebaseRootOntoDescendant ==
    (OntoDescendant /\ op.key = P.root_key) =>
        LET R == op.key
            Y == op.key2
            YP == NodeOf(P, Y).parent_key
        IN /\ op.ret = RBool(TRUE)
           /\ Live = LiveOf(P)
           /\ root_key = Y
           /\ N(Y).parent_key = None
           /\ N(Y).depth = 0
           /\ N(R).parent_key = Y
           /\ ix_contains(N(Y).child_keys, R)
           /\ ~ix_contains(N(YP).child_keys, Y)
           /\ C1_DepthsConsistent

\* The last call is rebase(k, p) with k and p live, p different from k, not
\* k's parent and not a descendant of k.
OntoOther ==
    /\ op.name = "rebase"
    /\ op.key \in LiveOf(P) /\ op.key2 \in LiveOf(P)
    /\ op.key2 # op.key
    /\ op.key2 # NodeOf(P, op.key).parent_key
    /\ op.key2 \notin DescendantsOf(P, op.key)

\* C10: rebase(k, p) with k and p live, p different from k, not k's parent
\* and not a descendant of k returns true; afterwards k has parent p and is
\* last in p's child order, k is gone from its old parent's child order,
\* whose other children keep their relative order, and the subtree below k
\* is intact (the same nodes, with their parents, child orders and values).
C10_RebaseOntoOther ==
    OntoOther =>
        LET k == op.key
            p == op.key2
            q == NodeOf(P, k).parent_key
        IN /\ op.ret = RBool(TRUE)
           /\ N(k).parent_key = p
           /\ N(p).child_keys = Append(NodeOf(P, p).child_keys, k)
           /\ N(q).child_keys = SelectSeq(NodeOf(P, q).child_keys,
                                          LAMBDA c : c # k)
           /\ N(k).child_keys = NodeOf(P, k).child_keys
           /\ N(k).value = NodeOf(P, k).value
           /\ Descendants(k) = DescendantsOf(P, k)
           /\ \A d \in DescendantsOf(P, k) :
                 /\ N(d).parent_key = NodeOf(P, d).parent_key
                 /\ N(d).child_keys = NodeOf(P, d).child_keys
                 /\ N(d).value = NodeOf(P, d).value

\* The first of three siblings has been rebased onto another node: the two
\* that stay must keep their order.
C10_Witness ==
    /\ OntoOther /\ op.ret = RBool(TRUE)
    /\ LET k == op.key
           q == NodeOf(P, k).parent_key
           cs == NodeOf(P, q).child_keys
       IN Len(cs) >= 3 /\ cs[1] = k

\* C11: whenever rebase(k, p) returns true, afterwards the parent of k is p
\* and the child order of the node that was k's parent before the call no
\* longer contains k.
C11_RebaseTrueMovesNode ==
    (op.name = "rebase" /\ op.ret = RBool(TRUE)) =>
        LET k == op.key
            p == op.key2
            q == NodeOf(P, k).parent_key
        IN /\ N(k).parent_key = p
           /\ q # None => ~ix_contains(N(q).child_keys, k)

\* C12: every rebase call, whatever it returns, leaves len() and the set of
\* live keys as they were before the call.
C12_RebaseKeepsLiveSet ==
    op.name = "rebase" => (Live = LiveOf(P) /\ len(T) = len(P))

\* A rebase has moved a node under another parent.
C12_Witness ==
    /\ op.name = "rebase" /\ op.ret = RBool(TRUE)
    /\ op.key \in LiveOf(P)
    /\ N(op.key).parent_key # NodeOf(P, op.key).parent_key

\* C13: rebase returns true if and only if the call changed the tree: a
\* call that changes nothing, rebase(k, k) on a live k or rebase(k, p) with
\* p already the parent of k, returns false.
C13_RebaseTrueIffChanged ==
    (op.name = "rebase" /\ op.ret.kind = "bool") =>
        (op.ret.val <=> T # P)

C15_RebaseMissingKeyIsFalse ==
    (op.name = "rebase"
        /\ (op.key \notin LiveOf(P) \/ op.key2 \notin LiveOf(P))) =>
        (op.ret = RBool(FALSE) /\ T = P)

\* rebase has been called on a tree of two or more nodes with a live key
\* and a new parent whose node was destroyed earlier.
C15_Witness ==
    /\ op.name = "rebase"
    /\ op.key \in LiveOf(P) /\ op.key2 \in dead /\ op.key2 \notin LiveOf(P)
    /\ Cardinality(LiveOf(P)) >= 2

\* The last call is remove(k) with k live and not the root.
RemoveNonRoot ==
    /\ op.name = "remove"
    /\ op.key \in LiveOf(P) /\ op.key # P.root_key

\* C16: remove(k) on a live non-root k with d descendants returns k's
\* value, destroys exactly k and its d descendants (len() drops by 1 + d),
\* removes k from its former parent's child order, whose other children
\* keep their relative order, and leaves every other node's parent, child
\* order, depth and value unchanged.
C16_RemoveNonRoot ==
    RemoveNonRoot =>
        LET k == op.key
            q == NodeOf(P, k).parent_key
        IN /\ op.ret = RValue(NodeOf(P, k).value)
           /\ Live = LiveOf(P) \ SubtreeOf(P, k)
           /\ len(T) = len(P) - (1 + Cardinality(DescendantsOf(P, k)))
           /\ root_key = P.root_key
           /\ N(q) = [NodeOf(P, q) EXCEPT
                         !.child_keys = SelectSeq(@, LAMBDA c : c # k)]
           /\ \A n \in Live \ {q} : N(n) = NodeOf(P, n)

\* A non-root node with a descendant and a sibling has been removed.
C16_Witness ==
    /\ RemoveNonRoot
    /\ DescendantsOf(P, op.key) # {}
    /\ Len(NodeOf(P, NodeOf(P, op.key).parent_key).child_keys) >= 2

\* C17: remove(root_key) on a non-empty tree returns the root's value and
\* empties the tree: len() is 0, is_empty() is true, root_key() is none and
\* no key that was live before is contained any more.
C17_RemoveRoot ==
    (op.name = "remove" /\ P.root_key # None /\ op.key = P.root_key) =>
        /\ op.ret = RValue(NodeOf(P, op.key).value)
        /\ len(T) = 0
        /\ is_empty(T)
        /\ root_key = None
        /\ \A h \in LiveOf(P) : ~contains(T, h)

\* The root of a tree of three or more nodes has been removed.
C17_Witness ==
    /\ op.name = "remove" /\ P.root_key # None /\ op.key = P.root_key
    /\ Cardinality(LiveOf(P)) >= 3

\* C18: remove(k) returns none if and only if k is not live, the empty tree
\* included, and a call that returns none leaves the whole tree unchanged.
C18_RemoveNoneIffNotLive ==
    op.name = "remove" =>
        /\ op.ret = RNone <=> op.key \notin LiveOf(P)
        /\ op.ret = RNone => T = P

\* remove has been called on a non-empty tree with the key of a node that
\* was destroyed earlier.
C18_Witness ==
    /\ op.name = "remove" /\ op.ret = RNone
    /\ op.key \in dead /\ LiveOf(P) # {}

\* C19: insert(v, p) returns none if and only if p is not live, and then
\* changes nothing; otherwise it returns a fresh key h with value v, parent
\* p, no children and depth(p) + 1, h is appended last to p's child order,
\* len() grows by exactly 1 and every other node is unchanged.
C19_Insert ==
    op.name = "insert" =>
        LET p == op.key2
            h == op.ret.val
        IN /\ op.ret = RNone <=> p \notin LiveOf(P)
           /\ op.ret = RNone => T = P
           /\ op.ret # RNone =>
                /\ op.ret.kind = "key"
                /\ h \notin LiveOf(P) /\ h \notin dead
                /\ Live = LiveOf(P) \cup {h}
                /\ N(h) = InnerNode(p, <<>>, op.value, NodeOf(P, p).depth + 1)
                /\ N(p) = [NodeOf(P, p) EXCEPT !.child_keys = Append(@, h)]
                /\ len(T) = len(P) + 1
                /\ root_key = P.root_key
                /\ \A n \in LiveOf(P) \ {p} : N(n) = NodeOf(P, n)

\* A node has been inserted under a parent that already had a child, in a
\* slot that a destroyed node had freed.
C19_Witness ==
    /\ op.name = "insert" /\ op.ret.kind = "key"
    /\ NodeOf(P, op.key2).child_keys # <<>>
    /\ \E d \in dead : d[1] = op.ret.val[1]

\* C20: insert_root(v) in any state yields a tree of exactly one node:
\* len() is 1, root_key() is the returned key, that node has value v, no
\* parent, depth 0 and no children, and no key that was live before the
\* call is contained any more.
C20_InsertRoot ==
    op.name = "insert_root" =>
        /\ op.ret.kind = "key"
        /\ len(T) = 1
        /\ root_key = op.ret.val
        /\ contains(T, op.ret.val)
        /\ N(op.ret.val) = InnerNode(None, <<>>, op.value, 0)
        /\ \A h \in LiveOf(P) : ~contains(T, h)

\* insert_root has been called on a tree of two or more nodes.
C20_Witness ==
    /\ op.name = "insert_root"
    /\ Cardinality(LiveOf(P)) >= 2

\* The last call is reorder_children(k, f) with k live and f returning
\* some of k's children.
ReorderSubset ==
    /\ op.name = "reorder_children"
    /\ op.key \in LiveOf(P)
    /\ Range(op.seq) \subseteq Range(NodeOf(P, op.key).child_keys)

\* The nodes below the children of k that f left out, those children
\* included.
Omitted ==
    UNION {SubtreeOf(P, c) :
             c \in Range(NodeOf(P, op.key).child_keys) \ Range(op.seq)}

\* C21: reorder_children(k, f) with k live and f returning a subset of k's
\* children, in any order, returns true; afterwards k's child order is
\* exactly what f returned, every omitted child and its whole subtree is
\* gone, and every surviving node other than k keeps its parent, child
\* order, depth and value.
C21_ReorderSubset ==
    ReorderSubset =>
        /\ op.ret = RBool(TRUE)
        /\ Live = LiveOf(P) \ Omitted
        /\ N(op.key) = [NodeOf(P, op.key) EXCEPT !.child_keys = op.seq]
        /\ \A n \in Live \ {op.key} : N(n) = NodeOf(P, n)
        /\ root_key = P.root_key

\* A node with three children has been given two of them, in the other
\* order.
C21_Witness ==
    /\ ReorderSubset
    /\ Len(op.seq) = 2
    /\ Len(NodeOf(P, op.key).child_keys) = 3
    /\ op.seq # SelectSeq(NodeOf(P, op.key).child_keys,
                          LAMBDA c : ix_contains(op.seq, c))

\* C22: reorder_children(k, f) returns false when k is not live or when f
\* returns a key that is not a child of k (a key of no node, a grandchild,
\* a child of another node), and then the tree is as it was before the
\* call.
C22_ReorderRejected ==
    (op.name = "reorder_children" /\ ~ReorderSubset) =>
        (op.ret = RBool(FALSE) /\ T = P)

\* f has returned one child of k followed by a grandchild of k.
C22_Witness ==
    /\ op.name = "reorder_children" /\ op.key \in LiveOf(P)
    /\ Len(op.seq) = 2
    /\ op.seq[1] \in Range(NodeOf(P, op.key).child_keys)
    /\ op.seq[2] \in LiveOf(P)
    /\ NodeOf(P, op.seq[2]).parent_key \in Range(NodeOf(P, op.key).child_keys)

\* The common proper ancestors of a and b.
CommonAncestors(a, b) == Ancestors(a) \cap Ancestors(b)

\* C23: for live keys a and b, get_relationship(a, b) is Same iff a = b;
\* it is Ancestral with ancestor x and descendant y iff {x, y} = {a, b}
\* and x is a proper ancestor of y; otherwise it is Siblings with the
\* deepest common ancestor of a and b, a proper ancestor of both.
C23_Relationship ==
    (op.name = "get_relationship" /\ op.key \in Live /\ op.key2 \in Live) =>
        LET a == op.key
            b == op.key2
        IN /\ op.ret.kind = "rel"
           /\ op.ret.val = Same <=> a = b
           /\ \A x, y \in {a, b} :
                 op.ret.val = Ancestral(x, y) <=>
                    ({x, y} = {a, b} /\ x \in Ancestors(y))
           /\ op.ret.val.kind \in {"Same", "Ancestral", "Siblings"}
           /\ op.ret.val.kind = "Siblings" =>
                 \E c \in CommonAncestors(a, b) :
                    /\ op.ret.val = Siblings(c)
                    /\ \A d \in CommonAncestors(a, b) :
                          d = c \/ d \in Ancestors(c)

\* Two nodes whose deepest common ancestor is not the root have been
\* compared.
C23_Witness ==
    /\ op.name = "get_relationship"
    /\ op.ret.kind = "rel" /\ op.ret.val.kind = "Siblings"
    /\ op.ret.val.common_ancestor_key # root_key

\* C24: for any two keys a and b, get_relationship(a, b) gives what
\* get_relationship(b, a) gives in the same state: the same Ancestral pair
\* with the same roles, the same Siblings common ancestor, Same, or none.
C24_RelationshipSymmetric ==
    op.name = "get_relationship" =>
        op.ret = get_relationship(T, op.key2, op.key)

\* get_relationship has been called with an ancestor first and its
\* descendant, not a child of it, second.
C24_Witness ==
    /\ op.name = "get_relationship"
    /\ op.ret = RRel(Ancestral(op.key, op.key2))
    /\ N(op.key2).parent_key # op.key

\* C25: get_relationship(a, b) returns none if and only if a or b is not
\* live; this includes a = b with a not live and any call on an empty tree.
C25_RelationshipNoneIffNotLive ==
    op.name = "get_relationship" =>
        (op.ret = RNone <=> (op.key \notin Live \/ op.key2 \notin Live))

\* get_relationship(a, a) has been called on a non-empty tree with the key
\* of a destroyed node.
C25_Witness ==
    /\ op.name = "get_relationship" /\ op.key = op.key2
    /\ op.key \in dead /\ op.key \notin Live /\ Live # {}

\* What the last call gives when it is made on the tree before it with
\* the capacity argument h.
OutcomeWith(h) ==
    CASE op.name = "remove" -> remove_hinted(P, op.key, h)
      [] op.name = "rebase" -> rebase_hinted(P, op.key, op.key2, h)
      [] op.name = "insert_with_capacity" ->
            insert_with_capacity_hinted(P, op.value, op.key2, h)
      [] op.name = "insert_root_with_capacity" ->
            insert_root_with_capacity_hinted(P, op.value, h)

\* C26: capacity arguments have no observable effect: the same remove,
\* rebase, insert_with_capacity or insert_root_with_capacity call on the
\* same tree with any other size_hint or capacity returns the same result
\* and ends in the same tree.
C26_HintsHaveNoEffect ==
    op.name \in {"remove", "rebase", "insert_with_capacity",
                 "insert_root_with_capacity"} =>
        \A h \in (IF op.name \in {"remove", "rebase"}
                  THEN SizeHints ELSE Capacities) :
            OutcomeWith(h) = Ret(T, op.ret)

\* The staged entries of builder b by index: <<value, parent index>>, the
\* root at index 0 with no parent.
EntryValue(b, i) == IF i = 0 THEN b.root_value ELSE b.hooks[i][1]

\* The key of the node that holds value v.
KeyOfValue(v) == CHOOSE k \in Live : N(k).value = v

\* The values of the entries staged under index i, in staging order.
StagedChildren(b, i) ==
    LET under == SelectSeq(b.hooks, LAMBDA h : h[2] = i)
    IN [j \in 1..Len(under) |-> under[j][1]]

\* C27: in every TreeBuilder state reached through push_root, push and
\* extend calls that did not panic, each staged entry's parent index is
\* smaller than the entry's own index; finish() does not fail and returns a
\* tree with exactly one node per staged value, in which the node staged
\* at index i >= 1 is a child of the node staged at its parent index and
\* the children of a node stand in staging order; an empty builder
\* finishes to an empty tree.
C27_BuilderFinish ==
    /\ \A b \in BuilderIds :
          \A i \in 1..Len(builders[b].hooks) : builders[b].hooks[i][2] < i
    /\ op.name = "finish" =>
          LET b == builders[op.seq[1]]
              indices == 0..Len(b.hooks)
          IN /\ op.ret = RUnit
             /\ ~b.is_some => (root_key = None /\ is_empty(T))
             /\ b.is_some =>
                  /\ len(T) = 1 + Len(b.hooks)
                  /\ {N(k).value : k \in Live} = {EntryValue(b, i) : i \in indices}
                  /\ root_key = KeyOfValue(b.root_value)
                  /\ N(root_key).parent_key = None
                  /\ \A i \in indices \ {0} :
                        N(KeyOfValue(EntryValue(b, i))).parent_key =
                            KeyOfValue(EntryValue(b, b.hooks[i][2]))
                  /\ \A i \in indices :
                        LET child_keys == N(KeyOfValue(EntryValue(b, i))).child_keys
                        IN [j \in 1..Len(child_keys) |-> N(child_keys[j]).value]
                              = StagedChildren(b, i)

\* A builder of four entries that took in another builder has been
\* finished: two of its entries share a parent that is not the root.
C27_Witness ==
    /\ op.name = "finish" /\ op.ret = RUnit
    /\ LET b == builders[op.seq[1]]
       IN /\ b.is_some /\ Len(b.hooks) = 3
          /\ \E i, j \in 1..3 : i < j /\ b.hooks[i][1] > b.hooks[j][1]
          /\ \E i, j \in 1..3 : i # j /\ b.hooks[i][2] = b.hooks[j][2]
                                      /\ b.hooks[i][2] # 0

\* The last call is rebase(k, p) with k and p live and different and p not
\* a descendant of k, and it returned true.
RebasedOntoNonDescendant ==
    /\ op.name = "rebase" /\ op.ret = RBool(TRUE)
    /\ op.key \in LiveOf(P) /\ op.key2 \in LiveOf(P)
    /\ op.key2 # op.key
    /\ op.key2 \notin DescendantsOf(P, op.key)

\* The number of levels that d stands below k, for d in the subtree of k.
LevelsBelow(k, d) == Cardinality(Ancestors(d) \cap Subtree(k))

\* C28: whenever rebase(k, p) succeeds with p not a descendant of k and
\* depth(p) + 1 different from k's depth before the call, k is stamped
\* with depth(p) + 1 and every node of k's subtree with its distance below
\* k plus depth(p) + 1; so in particular when p is the grandparent of k.
C28_RebaseRestampsDepths ==
    (RebasedOntoNonDescendant
        /\ NodeOf(P, op.key2).depth + 1 # NodeOf(P, op.key).depth) =>
        \A d \in Subtree(op.key) :
            N(d).depth = LevelsBelow(op.key, d) + NodeOf(P, op.key2).depth + 1

\* C29: for any two distinct live keys a and b, get_relationship comes to
\* an end and its second walk, up b's parent chain, returns Ancestral or
\* Siblings before it steps past the root: the unreachable!() branch is
\* never executed.
C29_RelationshipNeverUnreachable ==
    (op.name = "get_relationship" /\ op.key \in Live /\ op.key2 \in Live
        /\ op.key # op.key2) =>
        /\ op.ret.kind = "rel"
        /\ LET w == walk_1(inner_nodes, N(op.key).parent_key, op.key2, <<>>,
                           sm_len(inner_nodes))
           IN /\ w.ok
              /\ ~w.found =>
                    walk_2(inner_nodes, N(op.key2).parent_key, op.key, op.key2,
                           w.path, sm_len(inner_nodes)).kind
                        \in {"Ancestral", "Siblings"}

\* The second walk has gone up two or more levels before it met a node of
\* the first walk's path.
C29_Witness ==
    /\ op.name = "get_relationship"
    /\ op.ret.kind = "rel" /\ op.ret.val.kind = "Siblings"
    /\ N(op.key2).parent_key # op.ret.val.common_ancestor_key

\* The keys of a walk are those of the set S, each once.
EachOnce(visited, S) == NoDuplicates(visited) /\ Range(visited) = S

\* C30: the work-stack walks of remove, reorder_children and rebase's
\* depth re-stamping end after handling each node of the affected subtree
\* exactly once: every key popped is live at that moment (the unwrap does
\* not fail) and no node outside the affected subtree is pushed.
C30_WalksVisitSubtreeOnce ==
    /\ RemoveNonRoot =>
          LET v == remove_visit(sm_remove(P.inner_nodes, op.key),
                                NodeOf(P, op.key).child_keys)
          IN /\ v.ok /\ EachOnce(v.visited, DescendantsOf(P, op.key))
             /\ op.ret.kind # "panic"
    /\ ReorderSubset =>
          LET v == remove_visit(P.inner_nodes,
                                ix_difference(NodeOf(P, op.key).child_keys, op.seq))
          IN /\ v.ok /\ EachOnce(v.visited, Omitted)
             /\ op.ret.kind # "panic"
    /\ (RebasedOntoNonDescendant
          /\ op.key2 # NodeOf(P, op.key).parent_key
          /\ NodeOf(P, NodeOf(P, op.key).parent_key).depth
                # NodeOf(P, op.key2).depth + 1) =>
          LET v == update_depths_visit(inner_nodes,
                       << <<NodeOf(P, op.key2).depth + 1, op.key>> >>)
          IN /\ v.ok /\ EachOnce(v.visited, Subtree(op.key))
             /\ v.sm = inner_nodes

\* A node with a child and a grandchild has been removed.
C30_Witness ==
    /\ RemoveNonRoot
    /\ \E d \in DescendantsOf(P, op.key) :
          NodeOf(P, d).parent_key # op.key

\* C31: for any tree description with pairwise distinct labels, making the
\* tree from it (insert_root for the root, insert for each child in listed
\* order, depth first) and reading it back through root_key and get, the
\* children in stored order, gives the description itself; no description
\* gives the empty tree.  Neither step fails.
C31_RoundTrip ==
    /\ op.ret.kind # "panic"
    /\ declared.stage \in {"made", "read"} =>
          /\ declared.given = <<>> <=> is_empty(T)
          /\ \A v \in DOMAIN declared.key_map :
                contains(T, declared.key_map[v]) /\ N(declared.key_map[v]).value = v
    /\ declared.stage = "read" => declared.read = declared.given

\* A description of four nodes, the root with two children and a
\* grandchild under the first of them, has been made and read back.
C31_Witness ==
    /\ declared.stage = "read"
    /\ declared.given # <<>>
    /\ LET n == declared.given[1]
       IN /\ Len(n.children) = 2
          /\ Len(n.children[1].children) = 1
          /\ n.children[2].value < n.children[1].value

\* The key of the node of tree that holds value v.
KeyIn(tree, v) == CHOOSE k \in LiveOf(tree) : NodeOf(tree, k).value = v

\* The value held by the parent of the node of tree that holds v; -1 for
\* the root.
ParentValueIn(tree, v) ==
    LET parent_key == NodeOf(tree, KeyIn(tree, v)).parent_key
    IN IF parent_key = None THEN -1 ELSE NodeOf(tree, parent_key).value

\* The last call is extend(other, parent_index) on a builder with a root,
\* with an other that has a root, and it did not panic.
Extended ==
    /\ op.name = "extend" /\ op.ret = RUnit
    /\ op.self.is_some /\ op.other.is_some

\* C32: extend(other, parent_index) on a builder with a root and a
\* non-empty other stages other's root as a child of the entry at
\* parent_index and shifts every parent index of other by the number of
\* entries staged before; after finish() the subtree under other's root
\* has the shape, values and child order of other.finish(), and the
\* entries staged before the call keep their parents.
C32_BuilderExtend ==
    Extended =>
        LET self == op.self
            other == op.other
            parent_index == op.seq[3]
            after == builders[op.seq[1]]
            staged == 1 + Len(self.hooks)
            tree == finish(after)
            self_tree == finish(self)
            other_tree == finish(other)
        IN /\ Len(after.hooks) = Len(self.hooks) + 1 + Len(other.hooks)
           /\ after.root_value = self.root_value
           /\ SubSeq(after.hooks, 1, Len(self.hooks)) = self.hooks
           /\ after.hooks[staged] = <<other.root_value, parent_index>>
           /\ \A i \in 1..Len(other.hooks) :
                 after.hooks[staged + i] =
                    <<other.hooks[i][1], other.hooks[i][2] + staged>>
           /\ tree.ret = RUnit /\ self_tree.ret = RUnit /\ other_tree.ret = RUnit
           /\ read_node(tree.tree, KeyIn(tree.tree, other.root_value),
                        NodeOf(tree.tree, KeyIn(tree.tree, other.root_value)).parent_key)
                 = read_node(other_tree.tree, other_tree.tree.root_key, None)
           /\ ParentValueIn(tree.tree, other.root_value)
                 = EntryValue(self, parent_index)
           /\ \A i \in 0..Len(self.hooks) :
                 ParentValueIn(tree.tree, EntryValue(self, i))
                    = ParentValueIn(self_tree.tree, EntryValue(self, i))

\* A builder with a root and a hook has taken in another builder with a
\* root and a hook, under its hook.
C32_Witness ==
    /\ Extended
    /\ Len(op.self.hooks) >= 1 /\ Len(op.other.hooks) >= 1
    /\ op.seq[3] = 1

\* The last call is rebase(k, p) with p the parent of k.
OntoParent ==
    /\ op.name = "rebase"
    /\ op.key \in LiveOf(P) /\ op.key2 \in LiveOf(P)
    /\ NodeOf(P, op.key).parent_key = op.key2

\* C33: rebase(k, p) where p is already the parent of k leaves the whole
\* tree state unchanged: k keeps its position in p's child order and no
\* depth is rewritten.
C33_RebaseOntoParentNoChange ==
    OntoParent =>
        /\ T = P
        /\ N(op.key2).child_keys = NodeOf(P, op.key2).child_keys
        /\ \A n \in Live : N(n).depth = NodeOf(P, n).depth

\* k is the first of several children of p, and has a child of its own.
C33_Witness ==
    /\ OntoParent
    /\ Len(N(op.key2).child_keys) >= 2
    /\ N(op.key2).child_keys[1] = op.key
    /\ N(op.key).child_keys # <<>>

\* C34: a successful rebase(k, p) with p not a descendant of k changes
\* only k's parent, the child orders of k's old parent and of p, and the
\* depths of nodes inside k's subtree: every value, the child order of
\* every other node, the parent of every node other than k, the depth of
\* every node outside k's subtree, and root_key stay as they were.
C34_RebaseFrame ==
    (/\ op.name = "rebase" /\ op.ret = RBool(TRUE)
     /\ op.key \in LiveOf(P) /\ op.key2 \in LiveOf(P)
     /\ op.key2 \notin DescendantsOf(P, op.key)) =>
        /\ root_key = P.root_key
        /\ Live = LiveOf(P)
        /\ \A n \in Live :
            /\ N(n).value = NodeOf(P, n).value
            /\ n \notin {NodeOf(P, op.key).parent_key, op.key2} =>
                  N(n).child_keys = NodeOf(P, n).child_keys
            /\ n # op.key => N(n).parent_key = NodeOf(P, n).parent_key
            /\ n \notin SubtreeOf(P, op.key) =>
                  N(n).depth = NodeOf(P, n).depth

\* k, with a child of its own, has moved from its parent to another node
\* that has a child, while a fourth node looks on.
C34_Witness ==
    /\ OntoOther /\ op.ret = RBool(TRUE) /\ op.changed
    /\ N(op.key).child_keys # <<>>
    /\ Cardinality(Live) >= 4

\* The relationships that the inner fn rebase hands to rebase_generic.
EntersGeneric(rel, new_parent_key) ==
    /\ rel.kind = "rel"
    /\ \/ rel.val.kind = "Siblings"
       \/ rel.val.kind = "Ancestral" /\ new_parent_key = rel.val.ancestor_key

\* C35: in every reachable state rebase_generic is never entered with key
\* equal to the root: for the root and any other live key get_relationship
\* yields Ancestral with the root as ancestor, which rebase does not hand
\* to rebase_generic, and every rebase call that did enter rebase_generic
\* found a parent to unwrap.
C35_GenericNeverOnRoot ==
    /\ \A k \in Live :
          LET rel == get_relationship(T, root_key, k)
          IN /\ k # root_key => rel = RRel(Ancestral(root_key, k))
             /\ ~EntersGeneric(rel, k)
    /\ (/\ op.name = "rebase"
        /\ EntersGeneric(get_relationship(P, op.key, op.key2), op.key2)) =>
            /\ op.key # P.root_key
            /\ NodeOf(P, op.key).parent_key # None
            /\ rebase_generic(P, op.key, op.key2).ret # RPanic

\* rebase was called with the root and one of its grandchildren.
C35_Witness ==
    /\ op.name = "rebase"
    /\ op.key = P.root_key /\ op.key2 \in LiveOf(P)
    /\ NodeOf(P, op.key2).parent_key \notin {None, op.key}

\* The last call is reorder_children(k, f) on a live k with f returning
\* the children it was given.
ReorderSame ==
    /\ op.name = "reorder_children" /\ op.key \in LiveOf(P)
    /\ op.seq = NodeOf(P, op.key).child_keys

\* C36: reorder_children(k, f) on a live k where f returns k's children
\* unchanged returns true and leaves the tree state identical; applying a
\* valid reorder a second time also returns true and changes nothing.
C36_ReorderIdempotent ==
    /\ ReorderSame => op.ret = RBool(TRUE) /\ T = P
    /\ (op.name = "reorder_children" /\ op.ret = RBool(TRUE)) =>
          reorder_children(T, op.key, op.seq) = Ret(T, RBool(TRUE))

\* The children given back unchanged are two, in a tree that an earlier
\* call has edited.
C36_Witness ==
    /\ ReorderSame
    /\ Len(op.seq) = 2
    /\ edits = 1

\* The last call is h = insert(v, p) with p live.
Inserted ==
    /\ op.name = "insert" /\ op.ret.kind = "key"
    /\ op.key2 \in LiveOf(P)

\* C37: with p live, h = insert(v, p) followed at once by remove(h)
\* returns v and restores the tree: the same live keys, each with the
\* parent, child order, depth and value it had before the insert, and the
\* same root_key.
C37_InsertThenRemove ==
    Inserted =>
        LET h == op.ret.val
            r == remove(T, h)
        IN /\ h \in Live /\ h \notin LiveOf(P)
           /\ r.ret = RValue(op.value)
           /\ r.tree.root_key = P.root_key
           /\ LiveOf(r.tree) = LiveOf(P)
           /\ \A n \in LiveOf(P) : NodeOf(r.tree, n) = NodeOf(P, n)

\* The new node went under a parent that already had a child, into a slot
\* that a destroyed node had left.
C37_Witness ==
    /\ Inserted
    /\ Len(NodeOf(P, op.key2).child_keys) >= 1
    /\ \E d \in dead : d[1] = op.ret.val[1]

\* C38: for a live non-root k with parent q and a live p that is neither
\* k, nor q, nor a descendant of k, rebase(k, p) followed by rebase(k, q)
\* restores every node's parent, depth and set of children to what they
\* were before the first call; only k's position in q's child order may
\* differ (k is now last).
C38_RebaseThereAndBack ==
    OntoOther =>
        LET k == op.key
            q == NodeOf(P, k).parent_key
            r == rebase(T, k, q)
        IN /\ op.ret = RBool(TRUE) /\ r.ret = RBool(TRUE)
           /\ r.tree.root_key = P.root_key
           /\ LiveOf(r.tree) = LiveOf(P)
           /\ \A n \in LiveOf(P) :
                /\ NodeOf(r.tree, n).parent_key = NodeOf(P, n).parent_key
                /\ NodeOf(r.tree, n).depth = NodeOf(P, n).depth
                /\ Range(NodeOf(r.tree, n).child_keys)
                      = Range(NodeOf(P, n).child_keys)
                /\ n # q => NodeOf(r.tree, n).child_keys = NodeOf(P, n).child_keys
           /\ NodeOf(r.tree, q).child_keys
                 = ix_insert(ix_shift_remove(NodeOf(P, q).child_keys, k), k)

====
